---- MODULE Spec2Model ----
(***************************************************************************)
(* disk_cpu_load.py: CPU load imposed by a raw sequential disk read.       *)
(*                                                                         *)
(* The model follows main() statement by statement: get_args, the buffer   *)
(* flush, ProcStat.current() (open /proc/stat, one loop iteration per      *)
(* line, close), the dd read, the second ProcStat.current(), the totals    *)
(* and differences, the load and the pass/fail verdict.                    *)
(*                                                                         *)
(* Text is modelled as sequences of one-character strings, so that         *)
(* str.split() and int() are computed and not assumed.  Python's int / int *)
(* is modelled as the correctly rounded binary64 quotient, with the        *)
(* significand held as a sequence of bits (most significant first).        *)
(***************************************************************************)
EXTENDS Integers, Sequences, FiniteSets, TLC

(***************************************************************************)
(* Bounds of the model.                                                    *)
(***************************************************************************)
\* counter values 0..MaxCounter in the user and idle fields of the sample rows
MaxCounter == 2
\* /proc/stat holds at most MaxLines lines each time it is read
MaxLines == 2

(***************************************************************************)
(* Text.                                                                   *)
(***************************************************************************)
Digits == <<"0", "1", "2", "3", "4", "5", "6", "7", "8", "9">>

DigitChars == {Digits[i] : i \in 1..10}

Whitespace == {" ", "\t", "\n"}

DigitVal(c) == (CHOOSE i \in 1..10 : Digits[i] = c) - 1

\* the decimal text of a natural number (used to write the sample input)
RECURSIVE Dec(_)
Dec(n) == IF n < 10 THEN <<Digits[n + 1]>> ELSE Dec(n \div 10) \o <<Digits[(n % 10) + 1]>>

\* a line of /proc/stat: the tokens separated by one blank, then a newline
RECURSIVE Join(_)
Join(tokens) ==
    IF tokens = <<>> THEN <<"\n">>
    ELSE IF Len(tokens) = 1 THEN Head(tokens) \o <<"\n">>
    ELSE Head(tokens) \o <<" ">> \o Join(Tail(tokens))

\* str.split() with no argument: the maximal runs of non-whitespace characters
RECURSIVE SplitFrom(_, _, _)
SplitFrom(s, cur, acc) ==
    IF s = <<>> THEN (IF cur = <<>> THEN acc ELSE Append(acc, cur))
    ELSE IF Head(s) \in Whitespace
         THEN SplitFrom(Tail(s), <<>>, IF cur = <<>> THEN acc ELSE Append(acc, cur))
         ELSE SplitFrom(Tail(s), Append(cur, Head(s)), acc)

split(s) == SplitFrom(s, <<>>, <<>>)

\* the digits part of an int() literal: digits, single underscores between them
DigitsOk(body) ==
    /\ body # <<>>
    /\ \A i \in 1..Len(body) : body[i] \in DigitChars \cup {"_"}
    /\ body[1] \in DigitChars
    /\ body[Len(body)] \in DigitChars
    /\ \A i \in 1..(Len(body) - 1) : ~(body[i] = "_" /\ body[i + 1] = "_")

Unsigned(tok) == IF tok # <<>> /\ tok[1] \in {"+", "-"} THEN Tail(tok) ELSE tok

\* int(tok) does not raise ValueError
int_ok(tok) == DigitsOk(Unsigned(tok))

RECURSIVE DigitsValue(_, _)
DigitsValue(body, acc) ==
    IF body = <<>> THEN acc
    ELSE IF Head(body) = "_" THEN DigitsValue(Tail(body), acc)
    ELSE DigitsValue(Tail(body), 10 * acc + DigitVal(Head(body)))

\* int(tok), for a token int() accepts
int_of(tok) ==
    IF tok[1] = "-" THEN 0 - DigitsValue(Unsigned(tok), 0) ELSE DigitsValue(Unsigned(tok), 0)

\* [int(stat) for stat in stat_values]
row_of(stat_values) == [i \in 1..Len(stat_values) |-> int_of(stat_values[i])]

(***************************************************************************)
(* Optional values: <<>> is None, <<v>> holds v.                           *)
(***************************************************************************)
None == <<>>

Some(v) == <<v>>

(***************************************************************************)
(* ProcStat.                                                               *)
(***************************************************************************)
CPU == <<"c", "p", "u">>

INTR == <<"i", "n", "t", "r">>

EmptyDict == <<>>

\* stats[stat_type] = row
DictSet(d, k, row) == [l \in (DOMAIN d) \cup {k} |-> IF l = k THEN row ELSE d[l]]

RECURSIVE sum(_)
sum(values) == IF values = <<>> THEN 0 ELSE Head(values) + sum(Tail(values))

get_totalDefaultZero(st, stat_type) ==
    IF stat_type \in DOMAIN st THEN Some(sum(st[stat_type])) ELSE Some(0)

\* ProcStat.get_total: the sum of the row, None when it raises KeyError
get_total(st, stat_type) ==
    IF stat_type \in DOMAIN st THEN Some(sum(st[stat_type])) ELSE None

(***************************************************************************)
(* Numbers.  cpu_load is the int 0 or a float.  A float is a sign, an      *)
(* exponent and a significand of MantBits bits, most significant first:    *)
(* its value is (+/-) mant * 2^(exp - (MantBits - 1)); zero has all bits 0. *)
(***************************************************************************)
\* the precision of a Python float (binary64)
MantBits == 53

PyInt(v) == [t |-> "int", v |-> v]

PyFloat(neg, exp, mant) == [t |-> "float", neg |-> neg, exp |-> exp, mant |-> mant]

Zeros(k) == [i \in 1..k |-> 0]

Abs(n) == IF n < 0 THEN 0 - n ELSE n

\* scale a / b into [1, 2): <<a', b', e>> with a / b = (a' / b') * 2^e
RECURSIVE Normalise(_, _, _)
Normalise(a, b, e) ==
    IF a >= 2 * b THEN Normalise(a, 2 * b, e + 1)
    ELSE IF a < b THEN Normalise(2 * a, b, e - 1)
    ELSE <<a, b, e>>

\* k more quotient bits of r / b (r < b), and the remainder left
RECURSIVE LongDiv(_, _, _, _)
LongDiv(r, b, k, acc) ==
    IF k = 0 THEN [bits |-> acc, rem |-> r]
    ELSE LET bit == IF 2 * r >= b THEN 1 ELSE 0
         IN  LongDiv(2 * r - bit * b, b, k - 1, Append(acc, bit))

\* the significand plus one unit in the last place
RECURSIVE Increment(_)
Increment(bits) ==
    IF bits = <<>> THEN [bits |-> <<>>, carry |-> 1]
    ELSE LET front == SubSeq(bits, 1, Len(bits) - 1)
         IN  IF bits[Len(bits)] = 0
             THEN [bits |-> Append(front, 1), carry |-> 0]
             ELSE LET r == Increment(front)
                  IN  [bits |-> Append(r.bits, 0), carry |-> r.carry]

\* round to nearest, ties to even
RoundNearestEven(neg, e, q, b) ==
    LET up == 2 * q.rem > b \/ (2 * q.rem = b /\ q.bits[MantBits] = 1)
        inc == Increment(q.bits)
    IN  IF ~up THEN PyFloat(neg, e, q.bits)
        ELSE IF inc.carry = 1 THEN PyFloat(neg, e + 1, <<1>> \o Zeros(MantBits - 1))
        ELSE PyFloat(neg, e, inc.bits)

\* n / d for two ints: the binary64 value nearest to the quotient
truediv(n, d) ==
    IF d = 0 THEN [t |-> "ZeroDivisionError"]
    ELSE IF n = 0 THEN PyFloat(d < 0, 0, Zeros(MantBits))
    ELSE LET nm == Normalise(Abs(n), Abs(d), 0)
             q  == LongDiv(nm[1] - nm[2], nm[2], MantBits - 1, <<1>>)
         IN  RoundNearestEven((n < 0) # (d < 0), nm[3], q, nm[2])

\* n // d for two ints (floor division)
floordiv(n, d) ==
    IF d = 0 THEN [t |-> "ZeroDivisionError"]
    ELSE LET q == Abs(n) \div Abs(d)
         IN  IF (n < 0) = (d < 0) THEN PyInt(q)
             ELSE IF q * Abs(d) = Abs(n) THEN PyInt(0 - q) ELSE PyInt(0 - q - 1)

RECURSIVE BitsValue(_, _)
BitsValue(bits, acc) ==
    IF bits = <<>> THEN acc ELSE BitsValue(Tail(bits), 2 * acc + Head(bits))

\* the integer part of |f| and whether |f| has a fractional part
IntPart(f) ==
    IF f.exp < 0 THEN 0
    ELSE IF f.exp >= MantBits - 1 THEN BitsValue(f.mant \o Zeros(f.exp - (MantBits - 1)), 0)
    ELSE BitsValue(SubSeq(f.mant, 1, f.exp + 1), 0)

HasFraction(f) ==
    IF f.exp < 0 THEN \E i \in 1..MantBits : f.mant[i] = 1
    ELSE \E i \in (f.exp + 2)..MantBits : f.mant[i] = 1

\* x > m and x < m for a number x and an int m (Python compares them exactly)
NumGt(x, m) ==
    IF x.t = "int" THEN x.v > m
    ELSE IF x.neg THEN IntPart(x) < 0 - m
    ELSE IntPart(x) > m \/ (IntPart(x) = m /\ HasFraction(x))

NumLt(x, m) ==
    IF x.t = "int" THEN x.v < m
    ELSE IF x.neg THEN IntPart(x) > 0 - m \/ (IntPart(x) = 0 - m /\ HasFraction(x))
    ELSE IntPart(x) < m

(***************************************************************************)
(* The content of /proc/stat: the lines the kernel may hand to one read.   *)
(***************************************************************************)
\* cpu rows user nice system idle, with user and idle in 0..MaxCounter
GridLines ==
    {Join(<<CPU, Dec(u), Dec(0), Dec(0), Dec(i)>>) : u \in 0..MaxCounter, i \in 0..MaxCounter}

\* the two ten-field cpu rows 100 0 50 800 0 0 0 0 0 0 and 110 0 60 840 0 0 0 0 0 0
BeforeLineA ==
    Join(<<CPU, Dec(100), Dec(0), Dec(50), Dec(800), Dec(0), Dec(0), Dec(0), Dec(0), Dec(0), Dec(0)>>)

AfterLineA ==
    Join(<<CPU, Dec(110), Dec(0), Dec(60), Dec(840), Dec(0), Dec(0), Dec(0), Dec(0), Dec(0), Dec(0)>>)

\* a cpu row with no idle field
ShortLine == Join(<<CPU, Dec(1), Dec(2)>>)

\* a cpu row with a negative counter
NegativeLine == Join(<<CPU, <<"-", "1">>, Dec(0), Dec(0), Dec(2)>>)

\* "cpu abc 10 20"
MalformedLine == Join(<<CPU, <<"a", "b", "c">>, Dec(10), Dec(20)>>)

\* "intr  +1_2" with a tab before the newline
IntrLine == INTR \o <<" ", " ", "+", "1", "_", "2", "\t", "\n">>

\* a label and no value
LabelOnlyLine == Join(<<INTR>>)

BlankLine == <<"\n">>

Lines ==
    GridLines \cup {BeforeLineA, AfterLineA, ShortLine, NegativeLine, MalformedLine,
                    IntrLine, LabelOnlyLine, BlankLine}

\* values of -m/--max-load on the command line (30 is the default)
MaxLoadArgs == {-1, 0, 30, 50}

(***************************************************************************)
(* State.                                                                  *)
(***************************************************************************)
VARIABLES
    pc,          \* the statement of main() that runs next
    max_load,    \* args.max_load
    fileOpen,    \* the /proc/stat handle of current_stats() is open
    stats,       \* current_stats(): the dict being filled
    line,        \* current_stats(): the line of the loop
    nlines,      \* current_stats(): the lines read so far
    init_stats,  \* main(): ProcStat before the read (its stats dict)
    end_stats,   \* main(): ProcStat after the read
    init_total, end_total, diff_idle, diff_total, diff_used, cpu_load,
    out,         \* what print() has written
    steps,       \* the steps main() has finished, each with its outcome
    raised,      \* the exception that ended main(), "none" if none
    exit_code    \* the exit status of the process

parse == <<fileOpen, stats, line, nlines>>

snaps == <<init_stats, end_stats>>

calc == <<init_total, end_total, diff_idle, diff_total, diff_used, cpu_load>>

vars == <<pc, max_load, parse, snaps, calc, out, steps, raised, exit_code>>

Init ==
    /\ pc = "get_args"
    /\ max_load = None
    /\ fileOpen = FALSE
    /\ stats = EmptyDict
    /\ line = <<>>
    /\ nlines = 0
    /\ init_stats = None
    /\ end_stats = None
    /\ init_total = None
    /\ end_total = None
    /\ diff_idle = None
    /\ diff_total = None
    /\ diff_used = None
    /\ cpu_load = None
    /\ out = <<>>
    /\ steps = <<>>
    /\ raised = "none"
    /\ exit_code = None

Step(name, ok) == [step |-> name, ok |-> ok]

\* an exception leaves main(): the interpreter prints the traceback and exits with 1
Raise(exc, name) ==
    /\ pc' = "done"
    /\ raised' = exc
    /\ exit_code' = Some(1)
    /\ steps' = Append(steps, Step(name, FALSE))

(***************************************************************************)
(* get_args(): the threshold; a negative one or a bad device ends the run. *)
(***************************************************************************)
get_args ==
    /\ pc = "get_args"
    /\ \E m \in MaxLoadArgs, device_ok \in BOOLEAN :
          IF m < 0 \/ ~device_ok
          THEN /\ Raise("SystemExit", "get_args")
               /\ UNCHANGED max_load
          ELSE /\ max_load' = Some(m)
               /\ pc' = "flush"
               /\ steps' = Append(steps, Step("get_args", TRUE))
               /\ UNCHANGED <<raised, exit_code>>
    /\ UNCHANGED <<parse, snaps, calc, out>>

(***************************************************************************)
(* blockdev --flushbufs, check=True.  CalledProcessError is caught and     *)
(* answered with exit(1); a missing blockdev binary is not caught.         *)
(***************************************************************************)
FlushOutcomes == {"ok", "CalledProcessError", "FileNotFoundError"}

FlushBuffers ==
    /\ pc = "flush"
    /\ \E rc \in FlushOutcomes :
          IF rc = "ok"
          THEN /\ pc' = "init_open"
               /\ steps' = Append(steps, Step("flush", TRUE))
               /\ UNCHANGED <<raised, exit_code>>
          ELSE Raise(IF rc = "CalledProcessError" THEN "SystemExit" ELSE rc, "flush")
    /\ UNCHANGED <<max_load, parse, snaps, calc, out>>

(***************************************************************************)
(* ProcStat.current(), called for init_stats and for end_stats.            *)
(***************************************************************************)
Which == {"init", "end"}

OpenPc(which) == IF which = "init" THEN "init_open" ELSE "end_open"

ReadPc(which) == IF which = "init" THEN "init_read" ELSE "end_read"

AfterPc(which) == IF which = "init" THEN "dd" ELSE "init_total"

StepName(which) == IF which = "init" THEN "init_stats" ELSE "end_stats"

OpenOutcomes == {"ok", "FileNotFoundError", "PermissionError"}

\* with open("/proc/stat", ...) as file
OpenStat(which) ==
    /\ pc = OpenPc(which)
    /\ \E rc \in OpenOutcomes :
          IF rc = "ok"
          THEN /\ fileOpen' = TRUE
               /\ stats' = EmptyDict
               /\ nlines' = 0
               /\ line' = <<>>
               /\ pc' = ReadPc(which)
               /\ UNCHANGED <<steps, raised, exit_code>>
          ELSE /\ Raise(rc, StepName(which))
               /\ UNCHANGED parse
    /\ UNCHANGED <<max_load, snaps, calc, out>>

\* the exception one iteration of the loop raises on this line, "none" if none
LineError(text) ==
    LET fields == split(text)
    IN  IF fields = <<>> THEN "IndexError"
        ELSE IF \E i \in 2..Len(fields) : ~int_ok(fields[i]) THEN "ValueError"
        ELSE "none"

\* one iteration with the handle left open when the iteration raises
ReadLineLeak(which) ==
    /\ pc = ReadPc(which)
    /\ nlines < MaxLines
    /\ \E text \in Lines :
          /\ line' = text
          /\ nlines' = nlines + 1
          /\ IF LineError(text) = "none"
             THEN /\ stats' = DictSet(stats, split(text)[1], row_of(Tail(split(text))))
                  /\ UNCHANGED <<fileOpen, pc, steps, raised, exit_code>>
             ELSE /\ Raise(LineError(text), StepName(which))
                  /\ UNCHANGED <<fileOpen, stats>>
    /\ UNCHANGED <<max_load, snaps, calc, out>>

\* for line in file: fields = line.split(); stats[fields[0]] = [int(..) ...]
ReadLine(which) ==
    /\ pc = ReadPc(which)
    /\ nlines < MaxLines
    /\ \E text \in Lines :
          /\ line' = text
          /\ nlines' = nlines + 1
          /\ IF LineError(text) = "none"
             THEN /\ stats' = DictSet(stats, split(text)[1], row_of(Tail(split(text))))
                  /\ UNCHANGED <<fileOpen, pc, steps, raised, exit_code>>
             ELSE /\ fileOpen' = FALSE
                  /\ Raise(LineError(text), StepName(which))
                  /\ UNCHANGED stats
    /\ UNCHANGED <<max_load, snaps, calc, out>>

\* reading the next line fails (OSError): the with block closes the handle
ReadError(which) ==
    /\ pc = ReadPc(which)
    /\ fileOpen' = FALSE
    /\ Raise("OSError", StepName(which))
    /\ UNCHANGED <<max_load, stats, line, nlines, snaps, calc, out>>

\* end of file: return stats, and current() wraps it in a ProcStat
ReturnStats(which) ==
    /\ pc = ReadPc(which)
    /\ fileOpen' = FALSE
    /\ IF which = "init"
       THEN init_stats' = Some(stats) /\ UNCHANGED end_stats
       ELSE end_stats' = Some(stats) /\ UNCHANGED init_stats
    /\ stats' = EmptyDict
    /\ line' = <<>>
    /\ nlines' = 0
    /\ pc' = AfterPc(which)
    /\ steps' = Append(steps, Step(StepName(which), TRUE))
    /\ UNCHANGED <<max_load, calc, out, raised, exit_code>>

(***************************************************************************)
(* dd if=<device> of=/dev/null, check=True, no handler.                    *)
(***************************************************************************)
ReadOutcomes == {"ok", "CalledProcessError", "FileNotFoundError"}

BulkReadUnchecked ==
    /\ pc = "dd"
    /\ \E rc \in ReadOutcomes :
          /\ pc' = "end_open"
          /\ steps' = Append(steps, Step("dd", rc = "ok"))
          /\ UNCHANGED <<raised, exit_code>>
    /\ UNCHANGED <<max_load, parse, snaps, calc, out>>

BulkReadNotAwaited ==
    /\ pc = "dd"
    /\ \E rc \in ReadOutcomes :
          /\ pc' = "end_open"
          /\ UNCHANGED <<steps, raised, exit_code>>
    /\ UNCHANGED <<max_load, parse, snaps, calc, out>>

BulkRead ==
    /\ pc = "dd"
    /\ \E rc \in ReadOutcomes :
          IF rc = "ok"
          THEN /\ pc' = "end_open"
               /\ steps' = Append(steps, Step("dd", TRUE))
               /\ UNCHANGED <<raised, exit_code>>
          ELSE Raise(rc, "dd")
    /\ UNCHANGED <<max_load, parse, snaps, calc, out>>

(***************************************************************************)
(* main(): totals, differences, load and verdict.                          *)
(***************************************************************************)
\* the index (from 1) of the idle field, stats["cpu"][3] in Python
IdleField == 4

\* end_stats.stats["cpu"][3] - init_stats.stats["cpu"][3]
DiffIdle(init, end) == end[CPU][IdleField] - init[CPU][IdleField]

DiffTotal(it, et) == et - it

DiffUsedPlusIdle(dt, di) == dt + di

DiffUsed(dt, di) == dt - di

CpuLoadGuardsUsed(du, dt) == IF du # 0 THEN truediv(du * 100, dt) ELSE PyInt(0)

CpuLoadFloorDiv(du, dt) == IF dt # 0 THEN floordiv(du * 100, dt) ELSE PyInt(0)

\* cpu_load = 0; if diff_total != 0: cpu_load = (diff_used*100)/diff_total
CpuLoad(du, dt) == IF dt # 0 THEN truediv(du * 100, dt) ELSE PyInt(0)

TestFailedAtThreshold(load, max) == ~NumLt(load, max)

\* cpu_load > max_load
TestFailed(load, max) == NumGt(load, max)

\* init_total = init_stats.get_total("cpu")
GetInitTotal ==
    /\ pc = "init_total"
    /\ LET total == get_total(init_stats[1], CPU)
       IN  IF total = None
           THEN /\ Raise("KeyError", "evaluate")
                /\ UNCHANGED calc
           ELSE /\ init_total' = total
                /\ pc' = "end_total"
                /\ UNCHANGED <<end_total, diff_idle, diff_total, diff_used, cpu_load,
                               steps, raised, exit_code>>
    /\ UNCHANGED <<max_load, parse, snaps, out>>

\* end_total = end_stats.get_total("cpu")
GetEndTotal ==
    /\ pc = "end_total"
    /\ LET total == get_total(end_stats[1], CPU)
       IN  IF total = None
           THEN /\ Raise("KeyError", "evaluate")
                /\ UNCHANGED calc
           ELSE /\ end_total' = total
                /\ pc' = "diff"
                /\ UNCHANGED <<init_total, diff_idle, diff_total, diff_used, cpu_load,
                               steps, raised, exit_code>>
    /\ UNCHANGED <<max_load, parse, snaps, out>>

\* diff_idle, diff_total, diff_used; a cpu row without index 3 raises IndexError
Differences ==
    /\ pc = "diff"
    /\ IF Len(end_stats[1][CPU]) < IdleField \/ Len(init_stats[1][CPU]) < IdleField
       THEN /\ Raise("IndexError", "evaluate")
            /\ UNCHANGED calc
       ELSE /\ diff_idle' = Some(DiffIdle(init_stats[1], end_stats[1]))
            /\ diff_total' = Some(DiffTotal(init_total[1], end_total[1]))
            /\ diff_used' = Some(DiffUsed(diff_total'[1], diff_idle'[1]))
            /\ pc' = "load"
            /\ UNCHANGED <<init_total, end_total, cpu_load, steps, raised, exit_code>>
    /\ UNCHANGED <<max_load, parse, snaps, out>>

Load ==
    /\ pc = "load"
    /\ LET load == CpuLoad(diff_used[1], diff_total[1])
       IN  IF load.t = "ZeroDivisionError"
           THEN /\ Raise("ZeroDivisionError", "evaluate")
                /\ UNCHANGED calc
           ELSE /\ cpu_load' = Some(load)
                /\ pc' = "verdict"
                /\ UNCHANGED <<init_total, end_total, diff_idle, diff_total, diff_used,
                               steps, raised, exit_code>>
    /\ UNCHANGED <<max_load, parse, snaps, out>>

\* print the load; above the threshold print the failure banner and exit(1)
Verdict ==
    /\ pc = "verdict"
    /\ pc' = "done"
    /\ steps' = Append(steps, Step("evaluate", TRUE))
    /\ IF TestFailed(cpu_load[1], max_load[1])
       THEN /\ out' = out \o <<"Detected CPU load", "DISK CPU LOAD TEST HAS FAILED">>
            /\ raised' = "SystemExit"
            /\ exit_code' = Some(1)
       ELSE /\ out' = Append(out, "Detected CPU load")
            /\ raised' = "none"
            /\ exit_code' = Some(0)
    /\ UNCHANGED <<max_load, parse, snaps, calc>>

Next ==
    \/ get_args
    \/ FlushBuffers
    \/ \E which \in Which : OpenStat(which)
    \/ \E which \in Which : ReadLine(which)
    \/ \E which \in Which : ReadError(which)
    \/ \E which \in Which : ReturnStats(which)
    \/ BulkRead
    \/ GetInitTotal
    \/ GetEndTotal
    \/ Differences
    \/ Load
    \/ Verdict

Spec == Init /\ [][Next]_vars

(***************************************************************************)
(* Exact arithmetic on naturals of any size, as bit sequences (least       *)
(* significant bit first), to compare a float with an exact quotient.      *)
(***************************************************************************)
RECURSIVE NatBits(_)
NatBits(n) == IF n = 0 THEN <<>> ELSE <<n % 2>> \o NatBits(n \div 2)

Reverse(bits) == [i \in 1..Len(bits) |-> bits[Len(bits) + 1 - i]]

\* bits * m + carry
RECURSIVE BigMul(_, _, _)
BigMul(bits, m, carry) ==
    IF bits = <<>> THEN NatBits(carry)
    ELSE LET t == Head(bits) * m + carry
         IN  <<t % 2>> \o BigMul(Tail(bits), m, t \div 2)

\* bits + c
BigAdd(bits, c) == BigMul(bits, 1, c)

RECURSIVE Trim(_)
Trim(bits) ==
    IF bits # <<>> /\ bits[Len(bits)] = 0 THEN Trim(SubSeq(bits, 1, Len(bits) - 1)) ELSE bits

RECURSIVE LeqFromTop(_, _)
LeqFromTop(x, y) ==
    IF x = <<>> THEN TRUE
    ELSE IF x[Len(x)] # y[Len(y)] THEN x[Len(x)] < y[Len(y)]
    ELSE LeqFromTop(SubSeq(x, 1, Len(x) - 1), SubSeq(y, 1, Len(y) - 1))

BigLeq(x, y) ==
    LET a == Trim(x)
        b == Trim(y)
    IN  IF Len(a) # Len(b) THEN Len(a) < Len(b) ELSE LeqFromTop(a, b)

\* |f| * |d| and |n|, both scaled by 2^(MantBits - 1 - f.exp)
FloatTimes(f, d) == BigMul(Reverse(f.mant), Abs(d), 0)

IntScaled(n, f) == Zeros(MantBits - 1 - f.exp) \o NatBits(Abs(n))

SignAgrees(f, n, d) == n = 0 \/ (f.neg <=> ((n < 0) # (d < 0)))

\* x * d = n exactly
ExactQuotient(x, n, d) ==
    IF x.t = "int" THEN x.v * d = n
    ELSE /\ x.exp < MantBits - 1
         /\ SignAgrees(x, n, d)
         /\ Trim(FloatTimes(x, d)) = Trim(IntScaled(n, x))

\* x is a float within half a unit in its last place of n / d
NearestFloat(x, n, d) ==
    /\ x.t = "float"
    /\ x.exp < MantBits - 1
    /\ SignAgrees(x, n, d)
    /\ BigLeq(<<0>> \o FloatTimes(x, d), BigAdd(<<0>> \o IntScaled(n, x), Abs(d)))
    /\ BigLeq(<<0>> \o IntScaled(n, x), BigAdd(<<0>> \o FloatTimes(x, d), Abs(d)))

(***************************************************************************)
(* The quantities the properties speak of, read off the two snapshots.     *)
(***************************************************************************)
Evaluated == cpu_load # None

totalBefore == sum(init_stats[1][CPU])

totalAfter == sum(end_stats[1][CPU])

idleBefore == init_stats[1][CPU][IdleField]

idleAfter == end_stats[1][CPU][IdleField]

deltaTotal == totalAfter - totalBefore

deltaIdle == idleAfter - idleBefore

deltaUsed == deltaTotal - deltaIdle

loadPercent == cpu_load[1]

InPercentRange(x) == ~NumLt(x, 0) /\ ~NumGt(x, 100)

SnapshotsTaken == init_stats # None /\ end_stats # None

HasIdle(snapshot) == CPU \in DOMAIN snapshot /\ Len(snapshot[CPU]) >= IdleField

(***************************************************************************)
(* C1.  Monotonic sanity, as stated: when the cpu total and the idle field *)
(* did not decrease and deltaTotal > 0, the load lies in 0..100.           *)
(* Fails: idle may grow by more than the total (another field dropped),    *)
(* which makes diff_used, and the load, negative.                          *)
(***************************************************************************)
MonotonicSanityAsStated ==
    (Evaluated /\ totalAfter >= totalBefore /\ idleAfter >= idleBefore /\ deltaTotal > 0)
        => InPercentRange(loadPercent)

(***************************************************************************)
(* C1, amended.  When the cpu total and the idle field did not decrease,   *)
(* deltaTotal > 0 and idle grew by no more than the total                  *)
(* (deltaIdle <= deltaTotal), the load satisfies 0 <= loadPercent <= 100.  *)
(***************************************************************************)
MonotonicSanity ==
    (Evaluated /\ totalAfter >= totalBefore /\ idleAfter >= idleBefore /\ deltaTotal > 0
        /\ deltaIdle <= deltaTotal)
        => InPercentRange(loadPercent)

\* a load strictly between 0 and 100 out of growing counters
MonotonicSanityWitness ==
    /\ Evaluated
    /\ totalAfter >= totalBefore /\ idleAfter > idleBefore /\ deltaIdle < deltaTotal
    /\ NumGt(loadPercent, 0) /\ NumLt(loadPercent, 100)

(***************************************************************************)
(* C2.  Threshold verdict: a finished measurement passes (exit status 0,   *)
(* no failure banner) exactly when loadPercent <= max_load, a load equal   *)
(* to the threshold included; the failure banner is printed only when      *)
(* loadPercent > max_load, and then the exit status is 1.                  *)
(***************************************************************************)
ThresholdVerdict ==
    /\ (pc = "done" /\ Evaluated) =>
          /\ (exit_code = Some(0)) <=> ~NumGt(loadPercent, max_load[1])
          /\ (exit_code = Some(1)) <=> NumGt(loadPercent, max_load[1])
    /\ (\E i \in 1..Len(out) : out[i] = "DISK CPU LOAD TEST HAS FAILED") =>
          /\ Evaluated
          /\ NumGt(loadPercent, max_load[1])
          /\ exit_code = Some(1)

\* a load of exactly 50.0 against a threshold of 50 has passed
ThresholdVerdictWitness ==
    /\ pc = "done"
    /\ Evaluated
    /\ max_load = Some(50)
    /\ loadPercent.t = "float"
    /\ ~NumGt(loadPercent, 50) /\ ~NumLt(loadPercent, 50)
    /\ exit_code = Some(0)
    /\ out = <<"Detected CPU load">>

DifferencesDerived ==
    /\ diff_total = Some(deltaTotal)
    /\ diff_idle = Some(deltaIdle)
    /\ diff_used = Some(deltaUsed)
    /\ (init_stats[1][CPU] = row_of(Tail(split(BeforeLineA)))
           /\ end_stats[1][CPU] = row_of(Tail(split(AfterLineA))))
          => (diff_total = Some(60) /\ diff_idle = Some(40) /\ diff_used = Some(20))

LoadDerivationAsStated ==
    (Evaluated /\ diff_total # Some(0)) =>
        /\ DifferencesDerived
        /\ ExactQuotient(loadPercent, deltaUsed * 100, deltaTotal)

(***************************************************************************)
(* C4, amended.  With deltaTotal # 0 the differences are those of the two  *)
(* cpu rows and loadPercent is the float (binary64) nearest to             *)
(* (deltaUsed * 100) / deltaTotal, not an integer quotient: it differs     *)
(* from the exact quotient by at most half a unit in its last place.       *)
(***************************************************************************)
LoadDerivation ==
    (Evaluated /\ diff_total # Some(0)) =>
        /\ DifferencesDerived
        /\ NearestFloat(loadPercent, deltaUsed * 100, deltaTotal)

\* the rows 100 0 50 800 ... and 110 0 60 840 ...: 60, 40, 20 and a load in (33, 34)
LoadDerivationWitness ==
    /\ Evaluated
    /\ init_stats[1][CPU] = <<100, 0, 50, 800, 0, 0, 0, 0, 0, 0>>
    /\ end_stats[1][CPU] = <<110, 0, 60, 840, 0, 0, 0, 0, 0, 0>>
    /\ diff_total = Some(60) /\ diff_idle = Some(40) /\ diff_used = Some(20)
    /\ NumGt(loadPercent, 33) /\ NumLt(loadPercent, 34)

(***************************************************************************)
(* C5.  Fail-fast parse, as stated: a line with a token after the label    *)
(* that is not a non-negative integer makes the parse fail with            *)
(* ValueError, and no snapshot is returned.                                *)
(* Fails: int() accepts "-1", and the row [-1, 0, 0, 2] is stored.         *)
(***************************************************************************)
NonNegativeInteger(tok) == int_ok(tok) /\ int_of(tok) >= 0

HasBadToken(text) ==
    \E i \in 2..Len(split(text)) : ~NonNegativeInteger(split(text)[i])

FailFastParse ==
    (line # <<>> /\ HasBadToken(line)) =>
        /\ raised = "ValueError"
        /\ ~fileOpen
        /\ (pc = "done" /\ (init_stats = None \/ end_stats = None))

(***************************************************************************)
(* C6.  Unknown label: get_total returns no value for a label the          *)
(* snapshot lacks, and a measurement whose before or after snapshot has no *)
(* "cpu" row ends with KeyError, without a load and without a verdict.     *)
(***************************************************************************)
UnknownLabel ==
    /\ init_total # None => CPU \in DOMAIN init_stats[1]
    /\ end_total # None => CPU \in DOMAIN end_stats[1]
    /\ (SnapshotsTaken /\ (CPU \notin DOMAIN init_stats[1] \/ CPU \notin DOMAIN end_stats[1])) =>
          /\ cpu_load = None
          /\ out = <<>>
          /\ exit_code # Some(0)
          /\ pc = "done" => (raised = "KeyError" /\ exit_code = Some(1))
          /\ pc \in {"init_total", "end_total", "done"}

\* the before snapshot has a cpu row, the after snapshot has none: KeyError
UnknownLabelWitness ==
    /\ pc = "done"
    /\ SnapshotsTaken
    /\ CPU \in DOMAIN init_stats[1]
    /\ CPU \notin DOMAIN end_stats[1]
    /\ init_total # None
    /\ raised = "KeyError"

(***************************************************************************)
(* C7.  Measurement ordering: a run that reaches a verdict has done, once  *)
(* each and in this order, the flush, the before snapshot, the bulk read,  *)
(* the after snapshot and the evaluation; no snapshot is read before the   *)
(* flush succeeded, and the after snapshot is not read before the bulk     *)
(* read finished.                                                           *)
(***************************************************************************)
StepNames == [i \in 1..Len(steps) |-> steps[i].step]

Done(name) == \E i \in 1..Len(steps) : steps[i] = Step(name, TRUE)

MeasurementOrdering ==
    /\ out # <<>> =>
          /\ StepNames = <<"get_args", "flush", "init_stats", "dd", "end_stats", "evaluate">>
          /\ \A i \in 1..Len(steps) : steps[i].ok
    /\ (fileOpen \/ init_stats # None) => Done("flush")
    /\ (pc \in {"end_open", "end_read"} \/ end_stats # None) =>
          (Done("flush") /\ Done("init_stats") /\ Done("dd"))
    /\ Evaluated => Done("end_stats")

\* a passing verdict
MeasurementOrderingWitness ==
    /\ pc = "done"
    /\ out # <<>>
    /\ exit_code = Some(0)
    /\ Len(steps) = 6

(***************************************************************************)
(* C8.  Abort on failure: when the flush, a snapshot read or the bulk read *)
(* fails, the run ends there: the failed step is the last one, no step is  *)
(* done twice, no load and no verdict is printed, and the exit status is   *)
(* not 0.                                                                   *)
(***************************************************************************)
Collaborators == {"flush", "init_stats", "dd", "end_stats"}

AbortOnFailure ==
    /\ \A i \in 1..Len(steps) :
          (steps[i].step \in Collaborators /\ ~steps[i].ok) =>
              /\ i = Len(steps)
              /\ pc = "done"
              /\ cpu_load = None
              /\ out = <<>>
              /\ exit_code = Some(1)
    /\ \A i, j \in 1..Len(steps) : steps[i].step = steps[j].step => i = j

\* the after snapshot failed to parse, after a good flush, snapshot and read
AbortOnFailureWitness ==
    /\ pc = "done"
    /\ Done("flush") /\ Done("init_stats") /\ Done("dd")
    /\ steps[Len(steps)] = Step("end_stats", FALSE)
    /\ raised = "ValueError"
    /\ exit_code = Some(1)

(***************************************************************************)
(* C9.  Snapshot invariant, as stated: in every snapshot the parser        *)
(* returns, every label maps to a non-empty row.                           *)
(* Fails: the line "intr" (a label and no value) is stored as an empty row.*)
(***************************************************************************)
RowsNonEmpty(snapshot) == \A label \in DOMAIN snapshot : snapshot[label] # <<>>

SnapshotRowsNonEmpty ==
    /\ init_stats # None => RowsNonEmpty(init_stats[1])
    /\ end_stats # None => RowsNonEmpty(end_stats[1])

(***************************************************************************)
(* C10.  Scoped source handle: the /proc/stat handle is open exactly       *)
(* while current_stats() iterates over the lines; after its return, after  *)
(* a malformed row part-way through, and after a failed open or read, it   *)
(* is closed, so no other step of main() runs with the handle open.        *)
(***************************************************************************)
ScopedHandle == fileOpen <=> pc \in {"init_read", "end_read"}

\* the second line read was malformed: ValueError, and the handle is closed
ScopedHandleWitness ==
    /\ pc = "done"
    /\ raised = "ValueError"
    /\ nlines = 2
    /\ line = MalformedLine
    /\ ~fileOpen

====
